---- MODULE Spec2Model ----
(***************************************************************************)
(* The browser client of the data preparation tool                         *)
(* (data_processing_tool/static/js/script.js) together with the            *)
(* preprocessing and analysis engine it talks to.  The client is modelled  *)
(* from script.js; the engine behind /upload, /preprocess and /analyze is  *)
(* not part of the sources and is modelled from the design document        *)
(* (sections 4.1 - 4.3 and 7).                                             *)
(***************************************************************************)
EXTENDS Integers, Sequences, FiniteSets, TLC

\* ------------------------------------------------------------- bounds
\* What the user does in one session: uploads, clicks on the two buttons and
\* changes to the selects and checkboxes, counted together.
MaxEvents == 4
\* Column/action pairs in one action set handed to the pipeline on its own.
MaxItems == 2

\* The events of the user in a behaviour whose requests all settle.
MaxSettlingEvents == 3

\* Numbers are held in units of 1/Scale ("formatted to a fixed precision").
Scale == 100

\* ------------------------------------------------------------- cells, tables
NA == [k |-> "na", v |-> 0]
Num(x) == [k |-> "num", v |-> x * Scale]
Str(x) == [k |-> "str", v |-> x]

Range(s) == {s[i] : i \in 1..Len(s)}

IndexOf(s, x) == IF x \in Range(s) THEN CHOOSE i \in 1..Len(s) : s[i] = x /\ \A j \in 1..(i-1) : s[j] # x ELSE 0

RECURSIVE SumSeq(_)
SumSeq(s) == IF s = <<>> THEN 0 ELSE Head(s) + SumSeq(Tail(s))

Sorted(s) == SortSeq(s, LAMBDA x, y : x < y)

MinOf(s) == CHOOSE x \in Range(s) : \A y \in Range(s) : x <= y

MaxOf(s) == CHOOSE x \in Range(s) : \A y \in Range(s) : x >= y

\* The cells of column c, top to bottom.
ColCells(t, c) == [i \in 1..Len(t.rows) |-> t.rows[i][IndexOf(t.cols, c)]]

\* The non-missing cells of column c.
Present(t, c) == SelectSeq(ColCells(t, c), LAMBDA x : x.k # "na")

\* The numbers of the non-missing cells of column c.
Values(t, c) == [i \in 1..Len(Present(t, c)) |-> Present(t, c)[i].v]

MissingCount(t, c) == Len(t.rows) - Len(Present(t, c))

\* ------------------------------------------------------------- 4.1 Column Classifier
IsNumericColumn(t, c) == Len(Present(t, c)) > 0 /\ \A i \in 1..Len(Present(t, c)) : Present(t, c)[i].k = "num"

classify(t) == [all |-> t.cols, numeric |-> {c \in Range(t.cols) : IsNumericColumn(t, c)}]

categorical(t) == Range(t.cols) \ classify(t).numeric

\* ------------------------------------------------------------- 4.2 Preprocessing Pipeline
Mean(vals) == SumSeq(vals) \div Len(vals)

Median(vals) ==
  LET s == Sorted(vals)
      n == Len(s)
  IN IF n % 2 = 1 THEN s[(n + 1) \div 2] ELSE (s[n \div 2] + s[n \div 2 + 1]) \div 2

Occurrences(cells, x) == Cardinality({i \in 1..Len(cells) : cells[i] = x})

\* Most frequent cell, ties broken by first occurrence.
ModeOf(cells) ==
  LET best(i) == \A j \in 1..Len(cells) : Occurrences(cells, cells[j]) <= Occurrences(cells, cells[i])
  IN cells[CHOOSE i \in 1..Len(cells) : best(i) /\ \A j \in 1..(i - 1) : ~best(j)]

\* Four times the q-th quartile (q = 1 or 3) of the sorted numbers s, by
\* linear interpolation between the neighbouring ranks.
Quartile4(s, q) ==
  LET pos4 == q * (Len(s) - 1)
      i == pos4 \div 4 + 1
      r == pos4 % 4
  IN IF r = 0 THEN 4 * s[i] ELSE 4 * s[i] + r * (s[i + 1] - s[i])

\* v lies inside [Q1 - 1.5 IQR, Q3 + 1.5 IQR] (compared at eight times the value).
InsideFences(vals, v) ==
  LET s == Sorted(vals)
      q1 == Quartile4(s, 1)
      q3 == Quartile4(s, 3)
  IN 2 * q1 - 3 * (q3 - q1) <= 8 * v /\ 8 * v <= 2 * q3 + 3 * (q3 - q1)

Phase(how) == CASE how \in {"mean", "median", "mode", "remove"} -> 1 [] how = "outliers" -> 2 [] OTHER -> 3

\* The cell of row r in column c of table t.
CellOf(t, r, c) == r[IndexOf(t.cols, c)]

\* A fill that drops the rows it should fill.
FillColumnDroppingRows(t, c, cell) == [t EXCEPT !.rows = SelectSeq(t.rows, LAMBDA r : CellOf(t, r, c).k # "na")]

FillColumn(t, c, cell) ==
  [t EXCEPT !.rows = [i \in 1..Len(t.rows) |-> IF CellOf(t, t.rows[i], c).k = "na" THEN [t.rows[i] EXCEPT ![IndexOf(t.cols, c)] = cell] ELSE t.rows[i]]]

RemoveMissing(t, c) == [t EXCEPT !.rows = SelectSeq(t.rows, LAMBDA r : CellOf(t, r, c).k # "na")]

RemoveOutliers(t, c) ==
  [t EXCEPT !.rows = SelectSeq(t.rows, LAMBDA r : CellOf(t, r, c).k = "na" \/ InsideFences(Values(t, c), CellOf(t, r, c).v))]

\* Min-max scaling of column c to [0, 1]; a zero-variance column maps to 0.
ScaleColumn(t, c) ==
  LET lo == MinOf(Values(t, c))
      hi == MaxOf(Values(t, c))
      j == IndexOf(t.cols, c)
      scaled(r) == IF r[j].k = "na" THEN r
                   ELSE [r EXCEPT ![j] = [k |-> "num", v |-> IF hi = lo THEN 0 ELSE ((r[j].v - lo) * Scale) \div (hi - lo)]]
  IN [t EXCEPT !.rows = [i \in 1..Len(t.rows) |-> scaled(t.rows[i])]]

Outcome(t, status, count) == [table |-> t, status |-> status, count |-> count]

\* The statistic a fill action puts into the missing cells of column c.
FillValue(t, c, how) ==
  CASE how = "mean" -> [k |-> "num", v |-> Mean(Values(t, c))]
    [] how = "median" -> [k |-> "num", v |-> Median(Values(t, c))]
    [] OTHER -> ModeOf(Present(t, c))

MissingStep(typing, t, c, how) ==
  IF how = "remove"
    THEN Outcome(RemoveMissing(t, c), "applied", MissingCount(t, c))
  ELSE IF Len(Present(t, c)) = 0
    THEN Outcome(t, "skipped_empty", 0)
  ELSE IF how \in {"mean", "median"} /\ c \notin typing.numeric
    THEN Outcome(t, "skipped_type", 0)
  ELSE Outcome(FillColumn(t, c, FillValue(t, c, how)), "applied", MissingCount(t, c))

OutlierStep(typing, t, c) ==
  IF c \notin typing.numeric THEN Outcome(t, "skipped_type", 0)
  ELSE IF Len(Present(t, c)) = 0 THEN Outcome(t, "applied", 0)
  ELSE Outcome(RemoveOutliers(t, c), "applied", Len(t.rows) - Len(RemoveOutliers(t, c).rows))

NormalizeStep(typing, t, c) ==
  IF c \notin typing.numeric THEN Outcome(t, "skipped_type", 0)
  ELSE IF Len(Present(t, c)) = 0 THEN Outcome(t, "applied", 0)
  ELSE Outcome(ScaleColumn(t, c),
               IF MinOf(Values(t, c)) = MaxOf(Values(t, c)) THEN "degenerate" ELSE "applied",
               Len(Present(t, c)))

\* One sub-step of the pipeline on the current table.
Step(typing, t, item) ==
  CASE Phase(item.how) = 1 -> MissingStep(typing, t, item.col, item.how)
    [] Phase(item.how) = 2 -> OutlierStep(typing, t, item.col)
    [] OTHER -> NormalizeStep(typing, t, item.col)

LogEntry(item, out) == [how |-> item.how, col |-> item.col, status |-> out.status, count |-> out.count]

\* The sub-steps in the order the action set lists them.
PlanAsListed(ds, items) == items

\* The fixed order of the sub-steps: missing-value handling in column
\* declaration order, then outlier removal and normalization in the order
\* listed.
Plan(ds, items) ==
  LET miss == SortSeq(SelectSeq(items, LAMBDA it : Phase(it.how) = 1),
                      LAMBDA x, y : IndexOf(ds.cols, x.col) < IndexOf(ds.cols, y.col))
  IN miss \o SelectSeq(items, LAMBDA it : Phase(it.how) = 2) \o SelectSeq(items, LAMBDA it : Phase(it.how) = 3)

RECURSIVE RunPlan(_, _, _, _)
RunPlan(typing, t, log, todo) ==
  IF todo = <<>> THEN [table |-> t, log |-> log]
  ELSE LET out == Step(typing, t, Head(todo))
       IN RunPlan(typing, out.table, Append(log, LogEntry(Head(todo), out)), Tail(todo))

StructurallyValid(ds, items) == \A i \in 1..Len(items) : items[i].col \in Range(ds.cols)

\* apply(dataset, actions) -> (newDataset, log)
apply(ds, items) == RunPlan(classify(ds), ds, <<>>, Plan(ds, items))

\* ------------------------------------------------------------- 4.3 Analysis Engine
NumCell(n) == [k |-> "num", v |-> n]

Stat(key, value) == [key |-> key, value |-> value]

\* "" when the request is consistent with the column's inferred type.
AnalyzeError(ds, column, plot_type) ==
  IF column \notin Range(ds.cols) THEN "UnknownColumnError"
  ELSE IF plot_type \in {"histogram", "boxplot"} /\ column \notin classify(ds).numeric THEN "TypeMismatchError"
  ELSE IF plot_type = "count" /\ column \notin categorical(ds) THEN "TypeMismatchError"
  ELSE IF plot_type \notin {"histogram", "boxplot", "count"} THEN "TypeMismatchError"
  ELSE ""

\* The ordered statistics of a column (the standard deviation, which needs a
\* square root, is left out of the numeric set).
Stats(ds, c) ==
  IF c \in classify(ds).numeric
    THEN << Stat("count", NumCell(Len(Present(ds, c)))), Stat("mean", NumCell(Mean(Values(ds, c)))),
            Stat("median", NumCell(Median(Values(ds, c)))), Stat("min", NumCell(MinOf(Values(ds, c)))),
            Stat("max", NumCell(MaxOf(Values(ds, c)))), Stat("missing", NumCell(MissingCount(ds, c))) >>
    ELSE << Stat("count", NumCell(Len(Present(ds, c)))), Stat("distinct", NumCell(Cardinality(Range(Present(ds, c))))),
            Stat("top", IF Len(Present(ds, c)) = 0 THEN NA ELSE ModeOf(Present(ds, c))),
            Stat("freq", NumCell(IF Len(Present(ds, c)) = 0 THEN 0 ELSE Occurrences(Present(ds, c), ModeOf(Present(ds, c))))),
            Stat("missing", NumCell(MissingCount(ds, c))) >>

\* ------------------------------------------------------------- the files a user can upload
FileNames == {"f1", "f2"}

\* f1: column a is numeric with one value, column b mixes text and a number.
\* f2: a single column without any value.
FileData(f) ==
  IF f = "f1" THEN [cols |-> <<"a", "b">>, rows |-> << <<NA, Str(1)>>, <<Num(1), Num(2)>> >>]
  ELSE [cols |-> <<"a">>, rows |-> << <<NA>>, <<NA>> >>]

\* A dataset handle: the uploaded file's name, and for a cleaned snapshot the
\* preprocess request that produced it (rid = 0 for the upload itself).
Handle(f, rid) == [file |-> f, rid |-> rid]

\* ------------------------------------------------------------- client state
VARIABLES
  currentFilename, currentCleanedFilename, columns,
  mainContent, loader, uploadError, downloadContainer, downloadLink,
  columnSelect, plotTypeSelect,
  missingContainer, outlierContainer, normalizeContainer,
  filenameDisplay, dataPreview, dataDescription, dataInfo,
  preprocessLoader, logContainer,
  analysisLoader, resultsContainer, plotResult, statsResult,
  uploadsInFlight, preprocessInFlight, analyzeInFlight,
  uploadCount, preprocessCount, analyzeCount, editCount,
  store, lastSettled, eng

session == <<currentFilename, currentCleanedFilename, columns>>

uploadDom == <<mainContent, loader, uploadError>>

downloadDom == <<downloadContainer, downloadLink>>

selectDom == <<columnSelect, plotTypeSelect>>

toolDom == <<missingContainer, outlierContainer, normalizeContainer>>

infoDom == <<filenameDisplay, dataDescription, dataInfo>>

preprocessDom == <<preprocessLoader, logContainer>>

analysisDom == <<analysisLoader, resultsContainer, plotResult, statsResult>>

network == <<uploadsInFlight, preprocessInFlight, analyzeInFlight>>

counters == <<uploadCount, preprocessCount, analyzeCount, editCount>>

vars == <<session, uploadDom, downloadDom, selectDom, toolDom, infoDom, dataPreview, preprocessDom,
          analysisDom, network, store, lastSettled, eng>>

\* null
NoFile == Handle("", 0)

\* let columns = {}: its fields are first read in displayInitialData, after
\* the upload handler has assigned the typing of the response.
NoColumns == [all |-> <<>>, numeric |-> {}]

NoTable == [cols |-> <<>>, rows |-> <<>>]

EmptySelect == [options |-> <<>>, value |-> ""]

EmptyLog == [kind |-> "empty", entries |-> <<>>, message |-> ""]

\* No analyze request.
NoRequest == [id |-> 0, filename |-> NoFile, column |-> "", plot_type |-> ""]

\* plotResult and statsResult: what is shown, and in "of" the request whose
\* response put it there.
EmptyPlot == [kind |-> "empty", image |-> "", of |-> NoRequest]

EmptyStats == [kind |-> "empty", heading |-> "", items |-> <<>>, message |-> "", of |-> NoRequest]

\* The pipeline run on its own: the dataset and the action set it was given,
\* the sub-steps still to run, the table after each sub-step so far (the
\* input first) and the log.
IdleEngine == [stage |-> "idle", input |-> NoTable, listed |-> <<>>, todo |-> <<>>, tables |-> <<NoTable>>, log |-> <<>>]

ClientInit ==
  /\ currentFilename = NoFile /\ currentCleanedFilename = NoFile /\ columns = NoColumns
  /\ mainContent = "none" /\ loader = "none" /\ uploadError = ""
  /\ downloadContainer = "none" /\ downloadLink = NoFile
  /\ columnSelect = EmptySelect /\ plotTypeSelect = EmptySelect
  /\ missingContainer = <<>> /\ outlierContainer = <<>> /\ normalizeContainer = <<>>
  /\ filenameDisplay = NoFile /\ dataPreview = NoTable /\ dataDescription = "" /\ dataInfo = ""
  /\ preprocessLoader = "none" /\ logContainer = EmptyLog
  /\ analysisLoader = "none" /\ resultsContainer = "none" /\ plotResult = EmptyPlot /\ statsResult = EmptyStats
  /\ uploadsInFlight = {} /\ preprocessInFlight = {} /\ analyzeInFlight = {}
  /\ uploadCount = 0 /\ preprocessCount = 0 /\ analyzeCount = 0 /\ editCount = 0
  /\ store = << >> /\ lastSettled = [kind |-> "none", ok |-> FALSE, handle |-> NoFile]

Init == ClientInit /\ eng = IdleEngine

\* ------------------------------------------------------------- UI helper functions
\* showLoader ignoring its argument: the loader is shown either way.
showLoaderAlways(show) == "block"

showLoader(show) == IF show THEN "block" ELSE "none"

MissingOptions(isNumeric) ==
  IF isNumeric THEN <<"none", "mean", "median", "mode", "remove">> ELSE <<"none", "mode", "remove">>

\* The three option containers after populatePreprocessingTools(cols): one
\* missing-value select per column, and an outlier and a normalize checkbox per
\* numeric column.
populatePreprocessingTools(cols) ==
  LET numericCols == SelectSeq(cols.all, LAMBDA c : c \in cols.numeric)
      box(c) == [column |-> c, checked |-> FALSE]
  IN [missing |-> [i \in 1..Len(cols.all) |->
                     [column |-> cols.all[i], options |-> MissingOptions(cols.all[i] \in cols.numeric), value |-> "none"]],
      outlier |-> [i \in 1..Len(numericCols) |-> box(numericCols[i])],
      normalize |-> [i \in 1..Len(numericCols) |-> box(numericCols[i])]]

\* plotTypeSelect after updatePlotOptions(selectedColumn); a rebuilt select
\* shows its first option.
updatePlotOptions(cols, selectedColumn) ==
  IF selectedColumn \in cols.numeric
    THEN [options |-> <<"histogram", "boxplot">>, value |-> "histogram"]
    ELSE [options |-> <<"count">>, value |-> "count"]

\* columnSelect after its options were rebuilt from cols.all.
ColumnOptions(cols) == [options |-> cols.all, value |-> IF cols.all = <<>> THEN "" ELSE cols.all[1]]

\* ------------------------------------------------------------- 1. file upload
CanAct == uploadCount + preprocessCount + analyzeCount + editCount < MaxEvents

\* The body of a successful /upload response for file f.
UploadBody(f) ==
  [filename |-> Handle(f, 0), columns |-> classify(FileData(f)), preview |-> FileData(f),
   insights |-> [description |-> f, info |-> f]]

\* The last upload or preprocess response handled: whether its handler ran
\* to the end of its try block, and then the handle the response carried.
Settled(kind, ok, handle) == IF ok THEN [kind |-> kind, ok |-> TRUE, handle |-> handle] ELSE [kind |-> "failed", ok |-> FALSE, handle |-> NoFile]

\* submit: the handler up to its await of fetch('/upload').
SubmitUpload(f) ==
  /\ CanAct
  /\ loader' = showLoader(TRUE)
  /\ mainContent' = "none"
  /\ uploadError' = ""
  /\ downloadContainer' = "none"
  /\ uploadCount' = uploadCount + 1
  /\ uploadsInFlight' = uploadsInFlight \cup {[id |-> uploadCount + 1, file |-> f]}
  /\ UNCHANGED <<session, downloadLink, selectDom, toolDom, infoDom, dataPreview, preprocessDom, analysisDom,
                 preprocessInFlight, analyzeInFlight, preprocessCount, analyzeCount, editCount, store, lastSettled, eng>>

\* fetch rejects, the status is not OK, the body is no JSON, or it has an
\* error field: nothing is assigned, catch shows "Upload failed: " and the
\* error's message (which nothing reads back).
UploadFailed(r) ==
  /\ r \in uploadsInFlight
  /\ uploadsInFlight' = uploadsInFlight \ {r}
  /\ uploadError' = "Upload failed"
  /\ loader' = showLoader(FALSE)
  /\ lastSettled' = Settled("upload", FALSE, Handle(r.file, 0))
  /\ UNCHANGED <<session, mainContent, downloadDom, selectDom, toolDom, infoDom, dataPreview, preprocessDom,
                 analysisDom, preprocessInFlight, analyzeInFlight, counters, store, eng>>

\* The three state variables as lines 35-37 assign them.
AssignSession(data) ==
  /\ currentFilename' = data.filename
  /\ currentCleanedFilename' = data.filename
  /\ columns' = data.columns

\* displayInitialData(data), run to its end.
displayInitialData(data) ==
  /\ filenameDisplay' = data.filename
  /\ dataPreview' = data.preview
  /\ dataDescription' = data.insights.description
  /\ dataInfo' = data.insights.info
  /\ missingContainer' = populatePreprocessingTools(columns').missing
  /\ outlierContainer' = populatePreprocessingTools(columns').outlier
  /\ normalizeContainer' = populatePreprocessingTools(columns').normalize
  /\ columnSelect' = ColumnOptions(columns')
  /\ plotTypeSelect' = updatePlotOptions(columns', ColumnOptions(columns').value)

\* An OK response with a complete body.
UploadSucceeded(r) ==
  /\ r \in uploadsInFlight
  /\ uploadsInFlight' = uploadsInFlight \ {r}
  /\ AssignSession(UploadBody(r.file))
  /\ displayInitialData(UploadBody(r.file))
  /\ mainContent' = "block"
  /\ loader' = showLoader(FALSE)
  /\ lastSettled' = Settled("upload", TRUE, Handle(r.file, 0))
  /\ UNCHANGED <<uploadError, downloadDom, preprocessDom, analysisDom, preprocessInFlight, analyzeInFlight,
                 counters, store, eng>>

\* An OK response whose body has filename, columns and preview but no
\* insights: displayInitialData throws at line 141, after lines 35-37 and
\* 139-140 have run.
UploadUndisplayable(r) ==
  /\ r \in uploadsInFlight
  /\ uploadsInFlight' = uploadsInFlight \ {r}
  /\ AssignSession(UploadBody(r.file))
  /\ filenameDisplay' = UploadBody(r.file).filename
  /\ dataPreview' = UploadBody(r.file).preview
  /\ uploadError' = "Upload failed"
  /\ loader' = showLoader(FALSE)
  /\ lastSettled' = Settled("upload", FALSE, Handle(r.file, 0))
  /\ UNCHANGED <<mainContent, downloadDom, selectDom, toolDom, dataDescription, dataInfo, preprocessDom,
                 analysisDom, preprocessInFlight, analyzeInFlight, counters, store, eng>>

\* ------------------------------------------------------------- 2. preprocessing
\* The dataset a handle names in the Dataset Store.
Dataset(h) == IF h.rid = 0 THEN FileData(h.file) ELSE store[h]

Chosen(container) == SelectSeq(container, LAMBDA e : e.checked)

\* The actions object lines 58-61 build from the three option containers.
BuildActions ==
  LET selected == SelectSeq(missingContainer, LAMBDA e : e.value # "none")
  IN [missing_values |-> [i \in 1..Len(selected) |-> [col |-> selected[i].column, how |-> selected[i].value]],
      outliers |-> [i \in 1..Len(Chosen(outlierContainer)) |-> Chosen(outlierContainer)[i].column],
      normalize |-> [i \in 1..Len(Chosen(normalizeContainer)) |-> Chosen(normalizeContainer)[i].column]]

Item(how, col) == [how |-> how, col |-> col]

\* The request's actions as the engine's list of column/action pairs.
ToItems(actions) ==
  actions.missing_values
    \o [i \in 1..Len(actions.outliers) |-> Item("outliers", actions.outliers[i])]
    \o [i \in 1..Len(actions.normalize) |-> Item("normalize", actions.normalize[i])]

\* click: the handler up to its await of fetch('/preprocess').  The request
\* also remembers what the panel showed when it was issued.
ClickPreprocess ==
  /\ mainContent = "block"
  /\ CanAct
  /\ preprocessLoader' = showLoader(TRUE)
  /\ logContainer' = EmptyLog
  /\ downloadContainer' = "none"
  /\ preprocessCount' = preprocessCount + 1
  /\ preprocessInFlight' = preprocessInFlight \cup
       {[id |-> preprocessCount + 1, filename |-> currentFilename, actions |-> BuildActions,
         before |-> [cleaned |-> currentCleanedFilename, preview |-> dataPreview, link |-> downloadLink]]}
  /\ UNCHANGED <<session, uploadDom, downloadLink, selectDom, toolDom, infoDom, dataPreview, analysisDom,
                 uploadsInFlight, analyzeInFlight, uploadCount, analyzeCount, editCount, store, lastSettled, eng>>

\* The catch block, line 81.
ShowPreprocessFailed(why) ==
  logContainer' = [kind |-> "error", entries |-> <<>>, message |-> "Preprocessing failed: " \o why]

\* Preprocess(datasetHandle, actions): the body of the /preprocess response.
PreprocessBody(r) ==
  LET run == apply(Dataset(r.filename), ToItems(r.actions))
  IN [cleaned_filename |-> Handle(r.filename.file, r.id), log |-> run.log, preview |-> run.table]

\* fetch rejects, the body is no JSON, or it has an error field (the engine
\* names a structural error): catch shows the message.
PreprocessFailed(r, why) ==
  /\ r \in preprocessInFlight
  /\ why = "error" => ~StructurallyValid(Dataset(r.filename), ToItems(r.actions))
  /\ preprocessInFlight' = preprocessInFlight \ {r}
  /\ ShowPreprocessFailed(why)
  /\ preprocessLoader' = showLoader(FALSE)
  /\ lastSettled' = Settled("preprocess", FALSE, Handle(r.filename.file, r.id))
  /\ UNCHANGED <<session, uploadDom, downloadDom, selectDom, toolDom, infoDom, dataPreview, analysisDom,
                 uploadsInFlight, analyzeInFlight, counters, store, eng>>

\* Lines 73-78 without line 72: the snapshot under analysis stays the same.
ShowCleanedKeepingSnapshot(data) ==
  /\ currentCleanedFilename' = currentCleanedFilename
  /\ logContainer' = [kind |-> "log", entries |-> data.log, message |-> ""]
  /\ dataPreview' = data.preview
  /\ downloadLink' = data.cleaned_filename
  /\ downloadContainer' = "block"

\* Lines 72-78 without line 73: the log area stays as the click cleared it.
ShowCleanedWithoutLog(data) ==
  /\ currentCleanedFilename' = data.cleaned_filename
  /\ logContainer' = logContainer
  /\ dataPreview' = data.preview
  /\ downloadLink' = data.cleaned_filename
  /\ downloadContainer' = "block"

\* What lines 72-78 put on the page for a response body.
ShowCleaned(data) ==
  /\ currentCleanedFilename' = data.cleaned_filename
  /\ logContainer' = [kind |-> "log", entries |-> data.log, message |-> ""]
  /\ dataPreview' = data.preview
  /\ downloadLink' = data.cleaned_filename
  /\ downloadContainer' = "block"

PreprocessSucceeded(r) ==
  /\ r \in preprocessInFlight
  /\ StructurallyValid(Dataset(r.filename), ToItems(r.actions))
  /\ preprocessInFlight' = preprocessInFlight \ {r}
  /\ store' = (PreprocessBody(r).cleaned_filename :> apply(Dataset(r.filename), ToItems(r.actions)).table) @@ store
  /\ ShowCleaned(PreprocessBody(r))
  /\ preprocessLoader' = showLoader(FALSE)
  /\ lastSettled' = Settled("preprocess", TRUE, PreprocessBody(r).cleaned_filename)
  /\ UNCHANGED <<currentFilename, columns, uploadDom, selectDom, toolDom, infoDom, analysisDom,
                 uploadsInFlight, analyzeInFlight, counters, eng>>

\* A body with cleaned_filename but without log: line 72 has assigned when
\* data.log.map throws at line 73, and catch runs.
PreprocessWithoutLog(r) ==
  /\ r \in preprocessInFlight
  /\ StructurallyValid(Dataset(r.filename), ToItems(r.actions))
  /\ preprocessInFlight' = preprocessInFlight \ {r}
  /\ store' = (PreprocessBody(r).cleaned_filename :> apply(Dataset(r.filename), ToItems(r.actions)).table) @@ store
  /\ currentCleanedFilename' = PreprocessBody(r).cleaned_filename
  /\ ShowPreprocessFailed("TypeError")
  /\ preprocessLoader' = showLoader(FALSE)
  /\ lastSettled' = Settled("preprocess", FALSE, PreprocessBody(r).cleaned_filename)
  /\ UNCHANGED <<currentFilename, columns, uploadDom, downloadDom, selectDom, toolDom, infoDom, dataPreview,
                 analysisDom, uploadsInFlight, analyzeInFlight, counters, eng>>

\* ------------------------------------------------------------- 3. analysis
\* click: the handler up to its await of fetch('/analyze').
ClickAnalyze ==
  /\ mainContent = "block"
  /\ CanAct
  /\ analysisLoader' = showLoader(TRUE)
  /\ resultsContainer' = "none"
  /\ plotResult' = EmptyPlot
  /\ statsResult' = EmptyStats
  /\ analyzeCount' = analyzeCount + 1
  /\ analyzeInFlight' = analyzeInFlight \cup
       {[id |-> analyzeCount + 1, filename |-> currentCleanedFilename, column |-> columnSelect.value,
         plot_type |-> plotTypeSelect.value]}
  /\ UNCHANGED <<session, uploadDom, downloadDom, selectDom, toolDom, infoDom, dataPreview, preprocessDom,
                 uploadsInFlight, preprocessInFlight, uploadCount, preprocessCount, editCount, store, lastSettled, eng>>

\* Analyze(datasetHandle, request): the body of an OK /analyze response.
AnalyzeBody(r) == [image |-> "chart", stats |-> Stats(Dataset(r.filename), r.column)]

\* What the engine answers to request r: "" or the error of a non-OK response.
AnalyzeRefusal(r) == AnalyzeError(Dataset(r.filename), r.column, r.plot_type)

\* The catch block without its line 127: the plot area keeps what it shows.
ShowAnalysisFailedKeepingPlot(r, message) ==
  /\ resultsContainer' = "grid"
  /\ plotResult' = plotResult
  /\ statsResult' = [kind |-> "error", heading |-> "", items |-> <<>>, message |-> message, of |-> r]

\* The catch block, lines 126-128.
ShowAnalysisFailed(r, message) ==
  /\ resultsContainer' = "grid"
  /\ plotResult' = [kind |-> "error", image |-> "", of |-> r]
  /\ statsResult' = [kind |-> "error", heading |-> "", items |-> <<>>, message |-> message, of |-> r]

\* Lines 116-123.
ShowAnalysis(r, image, stats) ==
  /\ plotResult' = [kind |-> "img", image |-> image, of |-> r]
  /\ statsResult' = [kind |-> "stats", heading |-> columnSelect.value, items |-> stats, message |-> "", of |-> r]
  /\ resultsContainer' = "grid"

AnalyzeSettles(r) ==
  /\ r \in analyzeInFlight
  /\ analyzeInFlight' = analyzeInFlight \ {r}
  /\ analysisLoader' = showLoader(FALSE)
  /\ UNCHANGED <<session, uploadDom, downloadDom, selectDom, toolDom, infoDom, dataPreview, preprocessDom,
                 uploadsInFlight, preprocessInFlight, counters, store, lastSettled, eng>>

\* fetch rejects or the body is no JSON.
AnalyzeFailed(r) == AnalyzeSettles(r) /\ ShowAnalysisFailed(r, "network")

\* The engine refuses the request: a non-OK response with an error field.
AnalyzeRefused(r) ==
  /\ AnalyzeRefusal(r) # ""
  /\ AnalyzeSettles(r)
  /\ ShowAnalysisFailed(r, AnalyzeRefusal(r))

AnalyzeSucceeded(r) ==
  /\ AnalyzeRefusal(r) = ""
  /\ AnalyzeSettles(r)
  /\ ShowAnalysis(r, AnalyzeBody(r).image, AnalyzeBody(r).stats)

\* An OK body without stats: line 116 has shown the chart when
\* Object.entries(undefined) throws at line 119, and catch runs.
AnalyzeWithoutStats(r) ==
  /\ AnalyzeRefusal(r) = ""
  /\ AnalyzeSettles(r)
  /\ ShowAnalysisFailed(r, "TypeError")

\* An OK body without image: the template prints "undefined" into the src.
AnalyzeWithoutImage(r) ==
  /\ AnalyzeRefusal(r) = ""
  /\ AnalyzeSettles(r)
  /\ ShowAnalysis(r, "undefined", AnalyzeBody(r).stats)

\* ------------------------------------------------------------- 4. the user's selections
Edit ==
  /\ CanAct
  /\ editCount' = editCount + 1
  /\ UNCHANGED <<uploadCount, preprocessCount, analyzeCount>>

\* The change listener of columnSelect, line 135.
ChangeColumn(c) ==
  /\ mainContent = "block"
  /\ Edit
  /\ c \in Range(columnSelect.options) /\ c # columnSelect.value
  /\ columnSelect' = [columnSelect EXCEPT !.value = c]
  /\ plotTypeSelect' = updatePlotOptions(columns, c)
  /\ UNCHANGED <<session, uploadDom, downloadDom, toolDom, infoDom, dataPreview, preprocessDom, analysisDom,
                 network, store, lastSettled, eng>>

ChangePlotType(p) ==
  /\ mainContent = "block"
  /\ Edit
  /\ p \in Range(plotTypeSelect.options) /\ p # plotTypeSelect.value
  /\ plotTypeSelect' = [plotTypeSelect EXCEPT !.value = p]
  /\ UNCHANGED <<session, uploadDom, downloadDom, columnSelect, toolDom, infoDom, dataPreview, preprocessDom,
                 analysisDom, network, store, lastSettled, eng>>

ChangeMissing(i, v) ==
  /\ mainContent = "block"
  /\ Edit
  /\ i \in 1..Len(missingContainer)
  /\ v \in Range(missingContainer[i].options) /\ v # missingContainer[i].value
  /\ missingContainer' = [missingContainer EXCEPT ![i].value = v]
  /\ UNCHANGED <<session, uploadDom, downloadDom, selectDom, outlierContainer, normalizeContainer, infoDom,
                 dataPreview, preprocessDom, analysisDom, network, store, lastSettled, eng>>

ToggleOutlier(i) ==
  /\ mainContent = "block"
  /\ Edit
  /\ i \in 1..Len(outlierContainer)
  /\ outlierContainer' = [outlierContainer EXCEPT ![i].checked = ~outlierContainer[i].checked]
  /\ UNCHANGED <<session, uploadDom, downloadDom, selectDom, missingContainer, normalizeContainer, infoDom,
                 dataPreview, preprocessDom, analysisDom, network, store, lastSettled, eng>>

ToggleNormalize(i) ==
  /\ mainContent = "block"
  /\ Edit
  /\ i \in 1..Len(normalizeContainer)
  /\ normalizeContainer' = [normalizeContainer EXCEPT ![i].checked = ~normalizeContainer[i].checked]
  /\ UNCHANGED <<session, uploadDom, downloadDom, selectDom, missingContainer, outlierContainer, infoDom,
                 dataPreview, preprocessDom, analysisDom, network, store, lastSettled, eng>>

\* ------------------------------------------------------------- the client with its server
Hows == {"none", "mean", "median", "mode", "remove"}

PlotTypes == {"histogram", "boxplot", "count"}

Next ==
  \/ \E f \in FileNames : SubmitUpload(f)
  \/ \E r \in uploadsInFlight : UploadFailed(r)
  \/ \E r \in uploadsInFlight : UploadSucceeded(r)
  \/ \E r \in uploadsInFlight : UploadUndisplayable(r)
  \/ ClickPreprocess
  \/ \E r \in preprocessInFlight : \E why \in {"network", "error"} : PreprocessFailed(r, why)
  \/ \E r \in preprocessInFlight : PreprocessSucceeded(r)
  \/ \E r \in preprocessInFlight : PreprocessWithoutLog(r)
  \/ ClickAnalyze
  \/ \E r \in analyzeInFlight : AnalyzeFailed(r)
  \/ \E r \in analyzeInFlight : AnalyzeRefused(r)
  \/ \E r \in analyzeInFlight : AnalyzeSucceeded(r)
  \/ \E r \in analyzeInFlight : AnalyzeWithoutStats(r)
  \/ \E r \in analyzeInFlight : AnalyzeWithoutImage(r)
  \/ \E c \in Range(columnSelect.options) : ChangeColumn(c)
  \/ \E p \in PlotTypes : ChangePlotType(p)
  \/ \E i \in 1..Len(missingContainer) : \E v \in Hows : ChangeMissing(i, v)
  \/ \E i \in 1..Len(outlierContainer) : ToggleOutlier(i)
  \/ \E i \in 1..Len(normalizeContainer) : ToggleNormalize(i)

Spec == Init /\ [][Next]_vars

\* The promise a handler awaits settles, by fulfilment or by rejection, and
\* the handler's continuation runs.
UploadResponse == \E r \in uploadsInFlight : UploadFailed(r) \/ UploadSucceeded(r) \/ UploadUndisplayable(r)

PreprocessResponse ==
  \E r \in preprocessInFlight :
    \/ \E why \in {"network", "error"} : PreprocessFailed(r, why)
    \/ PreprocessSucceeded(r)
    \/ PreprocessWithoutLog(r)

AnalyzeResponse ==
  \E r \in analyzeInFlight :
    AnalyzeFailed(r) \/ AnalyzeRefused(r) \/ AnalyzeSucceeded(r) \/ AnalyzeWithoutStats(r) \/ AnalyzeWithoutImage(r)

WithinSettling == uploadCount' + preprocessCount' + analyzeCount' + editCount' <= MaxSettlingEvents

SettlingNext ==
  \/ \E f \in FileNames : SubmitUpload(f) /\ WithinSettling
  \/ \E r \in uploadsInFlight : UploadFailed(r)
  \/ \E r \in uploadsInFlight : UploadSucceeded(r)
  \/ \E r \in uploadsInFlight : UploadUndisplayable(r)
  \/ ClickPreprocess /\ WithinSettling
  \/ \E r \in preprocessInFlight : \E why \in {"network", "error"} : PreprocessFailed(r, why)
  \/ \E r \in preprocessInFlight : PreprocessSucceeded(r)
  \/ \E r \in preprocessInFlight : PreprocessWithoutLog(r)
  \/ ClickAnalyze /\ WithinSettling
  \/ \E r \in analyzeInFlight : AnalyzeFailed(r)
  \/ \E r \in analyzeInFlight : AnalyzeRefused(r)
  \/ \E r \in analyzeInFlight : AnalyzeSucceeded(r)
  \/ \E r \in analyzeInFlight : AnalyzeWithoutStats(r)
  \/ \E r \in analyzeInFlight : AnalyzeWithoutImage(r)
  \/ \E c \in Range(columnSelect.options) : ChangeColumn(c) /\ WithinSettling
  \/ \E p \in PlotTypes : ChangePlotType(p) /\ WithinSettling
  \/ \E i \in 1..Len(missingContainer) : \E v \in Hows : ChangeMissing(i, v) /\ WithinSettling
  \/ \E i \in 1..Len(outlierContainer) : ToggleOutlier(i) /\ WithinSettling
  \/ \E i \in 1..Len(normalizeContainer) : ToggleNormalize(i) /\ WithinSettling

\* The client when every request settles: the event loop runs the
\* continuation of a settled promise.
SpecSettling ==
  Init /\ [][SettlingNext]_vars
    /\ WF_vars(UploadResponse) /\ WF_vars(PreprocessResponse) /\ WF_vars(AnalyzeResponse)

\* ------------------------------------------------------------- the pipeline, sub-step by sub-step
\* Scenario B, without and with a missing value; a table whose second
\* column's mean depends on the rows the first column's remove deletes; a
\* table whose second column is emptied by it; a zero-variance column next to
\* a text column; and the two files.
EngineDatasets ==
  { [cols |-> <<"a">>, rows |-> << <<Num(1)>>, <<Num(2)>>, <<Num(3)>>, <<Num(4)>>, <<Num(100)>> >>],
    [cols |-> <<"a">>, rows |-> << <<Num(1)>>, <<Num(2)>>, <<Num(3)>>, <<Num(4)>>, <<Num(100)>>, <<NA>> >>],
    [cols |-> <<"a", "b">>, rows |-> << <<NA, Num(10)>>, <<Num(25), NA>>, <<Num(35), Num(50)>> >>],
    [cols |-> <<"a", "b">>, rows |-> << <<Num(1), NA>>, <<NA, Num(2)>> >>],
    [cols |-> <<"a", "b">>, rows |-> << <<Num(5), Str(1)>>, <<Num(5), NA>>, <<Num(5), Str(1)>> >>],
    FileData("f1"), FileData("f2") }

EngineHows == {"mean", "median", "mode", "remove", "outliers", "normalize"}

\* Column "z" is in no dataset.
EngineItems == {Item(how, c) : how \in EngineHows, c \in {"a", "b", "z"}}

\* missing_values is a mapping, outliers and normalize are sets: no column
\* twice within one phase.
IsActionSet(items) ==
  \A i, j \in 1..Len(items) : i # j => ~(items[i].col = items[j].col /\ Phase(items[i].how) = Phase(items[j].how))

Listings == {s \in UNION {[1..n -> EngineItems] : n \in 0..MaxItems} : IsActionSet(s)}

EngineStart(ds, items) ==
  [stage |-> "running", input |-> ds, listed |-> items, todo |-> Plan(ds, items), tables |-> <<ds>>, log |-> <<>>]

EngineInit == ClientInit /\ eng \in {EngineStart(ds, items) : ds \in EngineDatasets, items \in Listings}

Current(e) == e.tables[Len(e.tables)]

clientVars == <<session, uploadDom, downloadDom, selectDom, toolDom, infoDom, dataPreview, preprocessDom,
                analysisDom, network, counters, store, lastSettled>>

\* A structurally invalid request fails the whole call.
EngineReject ==
  /\ eng.stage = "running" /\ eng.log = <<>>
  /\ ~StructurallyValid(eng.input, eng.listed)
  /\ eng' = [eng EXCEPT !.stage = "rejected"]
  /\ UNCHANGED clientVars

EngineStep ==
  /\ eng.stage = "running" /\ eng.todo # <<>>
  /\ StructurallyValid(eng.input, eng.listed)
  /\ LET out == Step(classify(eng.input), Current(eng), Head(eng.todo))
     IN eng' = [eng EXCEPT !.todo = Tail(eng.todo), !.tables = Append(eng.tables, out.table),
                           !.log = Append(eng.log, LogEntry(Head(eng.todo), out))]
  /\ UNCHANGED clientVars

EngineFinish ==
  /\ eng.stage = "running" /\ eng.todo = <<>>
  /\ StructurallyValid(eng.input, eng.listed)
  /\ eng' = [eng EXCEPT !.stage = "done"]
  /\ UNCHANGED clientVars

\* The preprocess handler's continuation on the finished run's response.
EngineDeliver ==
  /\ eng.stage = "done"
  /\ eng' = [eng EXCEPT !.stage = "shown"]
  /\ ShowCleaned([cleaned_filename |-> Handle("engine", 1), log |-> eng.log, preview |-> Current(eng)])
  /\ preprocessLoader' = showLoader(FALSE)
  /\ UNCHANGED <<currentFilename, columns, uploadDom, selectDom, toolDom, infoDom, analysisDom, network, counters,
                 store, lastSettled>>

\* The preprocess handler's continuation on the rejected call's response.
EngineDeliverError ==
  /\ eng.stage = "rejected"
  /\ eng' = [eng EXCEPT !.stage = "shown"]
  /\ ShowPreprocessFailed("error")
  /\ preprocessLoader' = showLoader(FALSE)
  /\ UNCHANGED <<session, uploadDom, downloadDom, selectDom, toolDom, infoDom, dataPreview, analysisDom, network,
                 counters, store, lastSettled>>

EngineNext == EngineReject \/ EngineStep \/ EngineFinish \/ EngineDeliver \/ EngineDeliverError

SpecEngine == EngineInit /\ [][EngineNext]_vars

\* The sub-steps compose to apply.
EngineAgreesWithApply ==
  eng.stage = "done" => apply(eng.input, eng.listed) = [table |-> Current(eng), log |-> eng.log]

\* ------------------------------------------------------------- properties
\* The analyze requests a step sends.
AnalyzeSent == analyzeInFlight' \ analyzeInFlight

\* The preprocess requests a step sends.
PreprocessSent == preprocessInFlight' \ preprocessInFlight

ValidPlotType(r, cols) ==
  /\ r.plot_type \in {"histogram", "boxplot"} => r.column \in cols.numeric
  /\ r.plot_type = "count" => r.column \notin cols.numeric
  /\ r.plot_type \in PlotTypes

\* C1: every analyze request the client sends carries a plot_type that is
\* valid for its column under the typing the client holds: histogram or
\* boxplot only for a column in columns.numeric, count only for a column that
\* is not numeric.
C1_AnalyzeRequestsCarryValidPlotType == [][\A r \in AnalyzeSent : ValidPlotType(r, columns)]_vars

\* C2: after every successful preprocess run the typing the client holds is
\* the classification of the cleaned snapshot that analyze requests now name.
C2_TypingFollowsCleanedSnapshot ==
  (lastSettled.ok /\ lastSettled.kind = "preprocess") => columns = classify(Dataset(currentCleanedFilename))

PreprocessFailedNow == {r \in preprocessInFlight \ preprocessInFlight' : logContainer'.kind = "error"}

\* C4: a preprocess handler that ends by showing 'Preprocessing failed' leaves
\* currentCleanedFilename, the preview and the download link as they were
\* when its call was issued, and the download container hidden.
C4_FailedPreprocessLeavesNoPartialResult ==
  [][\A r \in PreprocessFailedNow :
       /\ currentCleanedFilename' = r.before.cleaned
       /\ dataPreview' = r.before.preview
       /\ downloadLink' = r.before.link
       /\ downloadContainer' = "none"]_vars

LegalActions(actions, cols) ==
  /\ \A i \in 1..Len(actions.missing_values) :
       /\ actions.missing_values[i].col \in Range(cols.all)
       /\ actions.missing_values[i].how \in {"mean", "median", "mode", "remove"}
       /\ actions.missing_values[i].how \in {"mean", "median"} => actions.missing_values[i].col \in cols.numeric
  /\ Range(actions.outliers) \subseteq cols.numeric
  /\ Range(actions.normalize) \subseteq cols.numeric

\* C6: every preprocess request the client sends contains only legal
\* actions under the typing the client holds.
C6_PreprocessRequestsAreLegal == [][\A r \in PreprocessSent : LegalActions(r.actions, columns)]_vars

\* C10: while an upload is in flight the download container is hidden, and
\* whenever it is visible its link points to a cleaned snapshot of the file
\* named by currentFilename.
C10_DownloadBelongsToCurrentFile ==
  downloadContainer = "block" =>
    /\ uploadsInFlight = {}
    /\ downloadLink.rid # 0 /\ downloadLink.file = currentFilename.file

Fills == {"mean", "median", "mode"}

\* The sub-step that log entry i records ran on eng.tables[i] and left
\* eng.tables[i + 1].
Before(i) == eng.tables[i]

After(i) == eng.tables[i + 1]

LoggedBefore(i, item) == \E j \in 1..(i - 1) : eng.log[j].how = item.how /\ eng.log[j].col = item.col

Earlier(c, d) == IndexOf(eng.input.cols, c) < IndexOf(eng.input.cols, d)

\* C7: whatever the order in which the action set lists its actions, all
\* missing-value handling runs first, then all outlier removal, then all
\* normalization; and when a column's fill value is computed, the remove
\* action of every earlier column has run and its rows are gone.
C7_FixedPipelineOrder ==
  /\ \A i, j \in 1..Len(eng.log) : i < j => Phase(eng.log[i].how) <= Phase(eng.log[j].how)
  /\ \A i \in 1..Len(eng.log) : \A j \in 1..Len(eng.todo) : Phase(eng.log[i].how) <= Phase(eng.todo[j].how)
  /\ \A i \in 1..Len(eng.log) : eng.log[i].how \in Fills =>
       \A k \in 1..Len(eng.listed) :
         (eng.listed[k].how = "remove" /\ Earlier(eng.listed[k].col, eng.log[i].col)) =>
           /\ LoggedBefore(i, eng.listed[k])
           /\ MissingCount(Before(i), eng.listed[k].col) = 0
  /\ eng.stage = "done" => {Item(eng.log[i].how, eng.log[i].col) : i \in 1..Len(eng.log)} = Range(eng.listed)

\* An action set that lists a fill before the remove of an earlier column,
\* run to the end: the remove deleted a row, then the fill filled a cell.
C7_Witness ==
  /\ eng.stage = "done" /\ Len(eng.log) = 2
  /\ eng.listed[1].how = "mean" /\ eng.listed[2].how = "remove"
  /\ eng.log[1].how = "remove" /\ eng.log[1].count > 0
  /\ eng.log[2].how = "mean" /\ eng.log[2].status = "applied" /\ eng.log[2].count > 0

\* C8: no sub-step increases the row count, and a mean, median or mode fill
\* leaves it exactly unchanged.
C8_RowCountNeverGrows ==
  \A i \in 1..Len(eng.log) :
    /\ Len(After(i).rows) <= Len(Before(i).rows)
    /\ eng.log[i].how \in Fills => Len(After(i).rows) = Len(Before(i).rows)

\* A fill has filled a cell and, after it, outlier removal has deleted a row.
C8_Witness ==
  /\ eng.stage = "done" /\ Len(eng.log) = 2
  /\ eng.log[1].how \in Fills /\ eng.log[1].count > 0
  /\ eng.log[2].how = "outliers" /\ Len(After(2).rows) < Len(Before(2).rows)

Skipped(i) == eng.log[i].status \in {"skipped_empty", "skipped_type"}

Recoverable(i) == Skipped(i) \/ eng.log[i].status = "degenerate"

ColumnUnchanged(i) == ColCells(After(i), eng.log[i].col) = ColCells(Before(i), eng.log[i].col)

\* The client shows the run's log, preview and download link.
ShownAsCleaned ==
  /\ logContainer = [kind |-> "log", entries |-> eng.log, message |-> ""]
  /\ dataPreview = Current(eng)
  /\ currentCleanedFilename = Handle("engine", 1)
  /\ downloadContainer = "block" /\ downloadLink = currentCleanedFilename

\* Every action of the set has its log entry, and the sub-steps that did not
\* fail did to the table what they do on their own.
AllActionsRan ==
  /\ {Item(eng.log[i].how, eng.log[i].col) : i \in 1..Len(eng.log)} = Range(eng.listed)
  /\ Len(eng.log) = Len(eng.listed)
  /\ \A i \in 1..Len(eng.log) :
       After(i) = Step(classify(eng.input), Before(i), Item(eng.log[i].how, eng.log[i].col)).table

HasRecoverable == \E i \in 1..Len(eng.log) : Recoverable(i)

C11_SessionBelongsToOneUpload ==
  currentFilename # NoFile =>
    /\ currentCleanedFilename.file = currentFilename.file
    /\ columns = UploadBody(currentFilename.file).columns

\* C12: when an earlier preprocess request succeeds after a later one for the
\* same upload has succeeded, and no other is in flight, the cleaned
\* snapshot, the log, the preview and the download link are still those of
\* the request issued last.
C12_LastIssuedPreprocessWins ==
  [][\A r \in preprocessInFlight :
       ( /\ PreprocessSucceeded(r)
         /\ preprocessInFlight' = {}
         /\ lastSettled.ok /\ lastSettled.kind = "preprocess"
         /\ lastSettled.handle.file = r.filename.file /\ lastSettled.handle.rid > r.id
         /\ currentCleanedFilename = lastSettled.handle )
       => /\ currentCleanedFilename' = currentCleanedFilename
          /\ logContainer' = logContainer
          /\ dataPreview' = dataPreview
          /\ downloadLink' = downloadLink]_vars

\* The preprocess requests a step settles.
PreprocessSettled == preprocessInFlight \ preprocessInFlight'

\* The file of the upload whose response was last displayed in full: its
\* description is the one on the page.
LatestSuccessfulUpload == Handle(dataDescription, 0)

\* C13: no preprocess response changes currentFilename or columns, and every
\* preprocess request names the file of the latest successful upload, never
\* a cleaned snapshot.
C13_PreprocessNeverChangesItsInput ==
  [][/\ PreprocessSettled # {} => (currentFilename' = currentFilename /\ columns' = columns)
     /\ \A r \in PreprocessSent : r.filename.rid = 0 /\ r.filename = LatestSuccessfulUpload]_vars

\* The uploads a step settles with 'Upload failed'.
UploadFailedNow == {r \in uploadsInFlight \ uploadsInFlight' : ~lastSettled'.ok /\ uploadError' = "Upload failed"}

\* C14: an upload handler that ends by showing 'Upload failed' leaves
\* currentFilename, currentCleanedFilename and columns as they were and does
\* not make main content visible.
C14_FailedUploadLeavesSessionUnchanged ==
  [][UploadFailedNow # {} =>
       /\ currentFilename' = currentFilename
       /\ currentCleanedFilename' = currentCleanedFilename
       /\ columns' = columns
       /\ mainContent' = mainContent]_vars

\* C15: the heading of the statistics on display names the column of the
\* analyze request whose response produced them.
C15_StatsHeadingNamesRequestColumn ==
  statsResult.kind = "stats" => statsResult.heading = statsResult.of.column

\* ------------------------------------------------------------- loaders
\* C16: a loader that is shown is eventually hidden once the requests
\* settle, and no loader is visible while none of its requests is in flight.
C16_LoadersEventuallyHidden ==
  /\ [](uploadsInFlight = {} => loader = "none")
  /\ [](preprocessInFlight = {} => preprocessLoader = "none")
  /\ [](analyzeInFlight = {} => analysisLoader = "none")
  /\ (loader = "block") ~> (loader = "none")
  /\ (preprocessLoader = "block") ~> (preprocessLoader = "none")
  /\ (analysisLoader = "block") ~> (analysisLoader = "none")

\* One request of each kind has been sent, the last of them has failed, and
\* every loader is hidden again.
C16_Witness ==
  /\ uploadCount > 0 /\ preprocessCount > 0 /\ analyzeCount > 0
  /\ uploadsInFlight = {} /\ preprocessInFlight = {} /\ analyzeInFlight = {}
  /\ logContainer.kind = "error" /\ statsResult.kind = "error"
  /\ loader = "none" /\ preprocessLoader = "none" /\ analysisLoader = "none"

====
